---------------------------- MODULE Spec2Model ----------------------------
(***************************************************************************)
(* A model of lftk/mod, a caching proxy in front of the go command.        *)
(*                                                                         *)
(* The repository holds three builds of the same server:                   *)
(*   "timeout"  src/main.go 1-316: fetchPath, fetchMod with a timeout      *)
(*   "list"     src/main.go 318-643: fetchModPath, findMod over the list   *)
(*              file, fetchMod that parses the progress text               *)
(*   "map"      src/unnamed/part_000: findMod over the in-memory modules   *)
(*              map, fetchMod locked per "mod@ver"                         *)
(* The variable variant fixes the build for a whole behaviour.             *)
(*                                                                         *)
(* Strings whose characters the code inspects (version tokens, known       *)
(* versions) are sequences of one-character strings.                       *)
(***************************************************************************)
EXTENDS Integers, Sequences, FiniteSets, TLC

VARIABLES
    variant,    \* the build that is running
    pc,         \* pc[r]: where handler goroutine r is
    req,        \* req[r]: mod, ver, ext of the request r serves
    tok,        \* tok[r]: the ver argument of r's fetchMod / modInfo call
    mu,         \* mu[r]: v, the *sync.Mutex r loaded from the lock map
    vers,       \* vers[r]: the list fetchMod of the map build read from disk
    result,     \* result[r]: the handler's outcome (path served or error)
    locks,      \* fetchLock / locks (sync.Map): key -> mutex
    holder,     \* holder[m]: the goroutine holding mutex m, 0 when free
    origin,     \* origin[r]: the go process started on behalf of r
    files,      \* artifact files in the download cache: <<mod, ver, ext>>
    listFile,   \* listFile[mod]: lines of <mod>/@v/list
    modules,    \* modules (sync.Map) of the map build: mod -> []string
    calls,      \* history: every origin process ever started
    obs,        \* history: what held when request r arrived, and at its fetch
    overdue,    \* history: r's origin call has run past the timeout budget
    arg,        \* input of the pure function under test
    ret         \* its result

vars ==
    <<variant, pc, req, tok, mu, vers, result, locks, holder, origin, files,
      listFile, modules, calls, obs, overdue, arg, ret>>

sysVars ==
    <<variant, pc, req, tok, mu, vers, result, locks, holder, origin, files,
      listFile, modules, calls, obs, overdue>>

pureVars ==
    <<arg, ret>>

-----------------------------------------------------------------------------
(* Bounds *)

\* handler goroutines (requests) in one behaviour
MaxReq ==
    2

\* longest string given to the pure functions
MaxLen ==
    2

\* longest known-version list given to findMod
MaxList ==
    1

\* longest commit hash of a version in the lists of several versions
MaxHash ==
    2

\* longest list of several versions given to findMod
MaxMany ==
    2

\* longest string given to encodePath and decodePath
MaxPath ==
    4

\* most lines of progress text given to the scan of fetchMod
MaxLines ==
    2

-----------------------------------------------------------------------------
(* Strings *)

HexChars ==
    {"0", "1", "2", "3", "4", "5", "6", "7", "8", "9",
     "a", "b", "c", "d", "e", "f"}

\* strings.HasPrefix(s, prefix)
HasPrefix(s, prefix) ==
    /\ Len(s) >= Len(prefix)
    /\ SubSeq(s, 1, Len(prefix)) = prefix

\* strings.LastIndex(s, c) for a one-character c: Go's 0-based index, -1 if absent
LastIndex(s, c) ==
    IF \E i \in 1..Len(s) : s[i] = c
    THEN (CHOOSE i \in 1..Len(s) :
              /\ s[i] = c
              /\ \A j \in (i+1)..Len(s) : s[j] # c) - 1
    ELSE -1

\* Go's s[i:] for a 0-based i
From(s, i) ==
    SubSeq(s, i + 1, Len(s))

\* hexVer: every byte is 0-9 or a-f (true of the empty string)
hexVer(ver) ==
    \A i \in 1..Len(ver) : ver[i] \in HexChars

-----------------------------------------------------------------------------
(* findMod *)

\* (mutant) an exact token is matched as a prefix
findModHitPrefix(v, ver) ==
    IF ~hexVer(ver)
    THEN HasPrefix(v, ver)
    ELSE LET i == LastIndex(v, "-")
         IN  /\ i # -1
             /\ \/ HasPrefix(From(v, i + 1), ver)
                \/ HasPrefix(ver, From(v, i + 1))

\* one iteration of the loop of findMod in the list build: does v end the loop?
findModHit(v, ver) ==
    IF ~hexVer(ver)
    THEN ver = v
    ELSE LET i == LastIndex(v, "-")
         IN  /\ i # -1
             /\ \/ HasPrefix(From(v, i + 1), ver)
                \/ HasPrefix(ver, From(v, i + 1))

\* one iteration of the loop of findMod in the map build
findModMapHit(v, ver) ==
    IF ~hexVer(ver)
    THEN ver = v
    ELSE LET i == LastIndex(v, "-")
         IN  /\ i # -1
             /\ HasPrefix(From(v, i + 1), ver)

RECURSIVE findModLoop(_, _, _)
\* for _, v := range vers, from index k on (list build)
findModLoop(vs, ver, k) ==
    IF k > Len(vs)
    THEN [ver |-> ver, ok |-> FALSE]
    ELSE IF findModHit(vs[k], ver)
         THEN [ver |-> IF hexVer(ver) THEN vs[k] ELSE ver, ok |-> TRUE]
         ELSE findModLoop(vs, ver, k + 1)

RECURSIVE findModMapLoop(_, _, _)
\* for _, v := range val.([]string), from index k on (map build)
findModMapLoop(vs, ver, k) ==
    IF k > Len(vs)
    THEN [ver |-> ver, ok |-> FALSE]
    ELSE IF findModMapHit(vs[k], ver)
         THEN [ver |-> IF hexVer(ver) THEN vs[k] ELSE ver, ok |-> TRUE]
         ELSE findModMapLoop(vs, ver, k + 1)

\* findMod of the list build, given the lines readModList returned
findMod(vs, ver) ==
    findModLoop(vs, ver, 1)

\* findMod of the map build, given the modules entry (absent = empty)
findModMap(vs, ver) ==
    findModMapLoop(vs, ver, 1)

-----------------------------------------------------------------------------
(* The server: requests, the download cache, the go command *)

Reqs ==
    1..MaxReq

Builds ==
    {"timeout", "list", "map"}

Mods ==
    {"p", "q"}

Exts ==
    {".info", ".mod", ".zip"}

\* the token fetchMod is given for a list request
Latest ==
    <<"l", "a", "t", "e", "s", "t">>

\* a tagged version and a pseudo-version (revision hash "ab") of every package
Tagged ==
    <<"v", "1">>

Pseudo ==
    <<"v", "0", "-", "a", "b">>

\* an abbreviated revision of Pseudo
Abbrev ==
    <<"a">>

Canon ==
    {Tagged, Pseudo}

\* version tokens a client asks artifacts for
Tokens ==
    {Tagged, Pseudo, Abbrev}

\* the file part of a request path: "list", or <ver><ext>
RequestFiles ==
    {[ver |-> <<>>, ext |-> "list"]}
        \cup {[ver |-> v, ext |-> e] : v \in Tokens, e \in Exts}

NoReq ==
    [mod |-> "", ver |-> <<>>, ext |-> ""]

NoResult ==
    [kind |-> "none", mod |-> "", ver |-> <<>>, ext |-> "", err |-> ""]

NoProc ==
    [st |-> "none", kind |-> "", mod |-> "", tok |-> <<>>, ok |-> FALSE,
     rv |-> <<>>, info |-> FALSE, line |-> FALSE]

NoObs ==
    [hit |-> FALSE, exact |-> FALSE, during |-> {}, after |-> {},
     behind |-> {}, got |-> FALSE, cached |-> <<>>]

\* http.ServeFile(w, r, path): the handler ends with the path it serves
Served(m, v, e) ==
    [kind |-> "path", mod |-> m, ver |-> v, ext |-> e, err |-> ""]

\* http.Error(w, err.Error(), 500)
Failed(e) ==
    [kind |-> "err", mod |-> "", ver |-> <<>>, ext |-> "", err |-> e]

\* the versions the go command resolves a query to (none: unknown revision)
OriginResolves(t) ==
    {c \in Canon :
        \/ t = c
        \/ t = Latest /\ c = Tagged
        \/ /\ hexVer(t)
           /\ t # <<>>
           /\ LastIndex(c, "-") # -1
           /\ HasPrefix(From(c, LastIndex(c, "-") + 1), t)}

\* appending a line to the list file unless it is there
AppendIfAbsent(s, v) ==
    IF \E i \in 1..Len(s) : s[i] = v THEN s ELSE Append(s, v)

\* (mutant) one lock for every package
LockKeyGlobal(r) ==
    <<"mod">>

\* the key of the lock map: mod, and in the map build path = mod + "@" + ver
LockKey(r) ==
    IF variant = "map" THEN <<req[r].mod, tok[r]>> ELSE <<req[r].mod>>

\* r holds the mutex it loaded
Holds(r) ==
    /\ mu[r] # 0
    /\ holder[mu[r]] = r

\* go processes of one kind now running for package m
Running(m, k) ==
    {r \in Reqs : /\ origin[r].st = "running"
                  /\ origin[r].mod = m
                  /\ origin[r].kind = k}

\* the known-version list the build consults for package m
Known(m) ==
    IF variant = "map" THEN modules[m] ELSE listFile[m]

InSeq(v, s) ==
    \E i \in 1..Len(s) : s[i] = v

InitRest ==
    /\ pc = [r \in Reqs |-> "idle"]
    /\ req = [r \in Reqs |-> NoReq]
    /\ tok = [r \in Reqs |-> <<>>]
    /\ mu = [r \in Reqs |-> 0]
    /\ vers = [r \in Reqs |-> <<>>]
    /\ result = [r \in Reqs |-> NoResult]
    /\ locks = [k \in {} |-> 0]
    /\ holder = [m \in Reqs |-> 0]
    /\ origin = [r \in Reqs |-> NoProc]
    /\ files = {}
    /\ listFile = [m \in Mods |-> <<>>]
    /\ modules = [m \in Mods |-> <<>>]
    /\ calls = {}
    /\ obs = [r \in Reqs |-> NoObs]
    /\ overdue = [r \in Reqs |-> FALSE]

NoArg ==
    [tok |-> <<>>, list |-> <<>>]

NoRet ==
    [fn |-> "none", tok |-> <<>>, list |-> <<>>,
     out |-> [ver |-> <<>>, ok |-> FALSE]]

\* the server has started: nothing cached, no request yet
Init ==
    /\ variant \in Builds
    /\ InitRest
    /\ arg = NoArg
    /\ ret = NoRet

-----------------------------------------------------------------------------
(* Steps shared by the builds *)

\* the handler ends: its response is written
Respond(r, res) ==
    /\ result' = [result EXCEPT ![r] = res]
    /\ pc' = [pc EXCEPT ![r] = "done"]

\* the path fetchPath / fetchModPath / the handler serves after a fetch of v
PathAfterFetch(r, v) ==
    IF req[r].ext = "list"
    THEN Served(req[r].mod, <<>>, "list")
    ELSE Served(req[r].mod, v, req[r].ext)

\* defer v.(*sync.Mutex).Unlock()
Unlock(r) ==
    holder' = [holder EXCEPT ![mu[r]] = 0]

\* exec.Command("go", ...) is started on behalf of r
StartProc(r, k) ==
    /\ origin' = [origin EXCEPT ![r] =
                     [NoProc EXCEPT !.st = "running", !.kind = k,
                                    !.mod = req[r].mod, !.tok = tok[r]]]
    /\ calls' = calls \cup
                   {[by |-> r, kind |-> k, mod |-> req[r].mod, tok |-> tok[r]]}

\* history: r is about to call Lock() on mutex m; if m is held, r blocks
\* behind its holder
Arrive(r, m) ==
    obs' = [obs EXCEPT ![r].behind =
               IF holder[m] # 0 THEN @ \cup {holder[m]} ELSE @]

\* history: the go get of r has returned without error
Got(r) ==
    obs' = [obs EXCEPT ![r].got = TRUE]

\* the entry of the handler for an artifact request, by build
Entry ==
    IF variant = "timeout" THEN "exist" ELSE "find"

\* Requests are numbered as they arrive, and packages are named as they are
\* first asked for: "p" is the package of the first request.
Arrivals(r) ==
    IF r = 1 THEN {"p"} ELSE Mods

\* A request arrives, its file part one of F: the handler splits the path
\* into mod, ver and ext.
StartWith(r, F) ==
    /\ pc[r] = "idle"
    /\ \A q \in 1..(r - 1) : pc[q] # "idle"
    /\ \E m \in Arrivals(r), f \in F :
          /\ req' = [req EXCEPT ![r] = [mod |-> m, ver |-> f.ver, ext |-> f.ext]]
          /\ tok' = [tok EXCEPT ![r] = IF f.ext = "list" THEN Latest ELSE f.ver]
          /\ pc' = [pc EXCEPT ![r] = IF f.ext = "list" THEN "load" ELSE Entry]
          /\ obs' = [obs EXCEPT ![r] =
                        [hit    |-> <<m, f.ver, f.ext>> \in files,
                         exact  |-> f.ext # "list" /\ InSeq(f.ver, Known(m)),
                         during |-> Running(m, "get"),
                         after  |-> {q \in Reqs : pc[q] = "done"},
                         behind |-> {},
                         got    |-> FALSE,
                         cached |-> <<>>]]
    /\ UNCHANGED <<variant, mu, vers, result, locks, holder, origin, files,
                   listFile, modules, calls, overdue, pureVars>>

\* A request arrives.
Start(r) ==
    StartWith(r, RequestFiles)

\* v, ok := locks.Load(key)
LockLoad(r) ==
    /\ pc[r] = "load"
    /\ IF LockKey(r) \in DOMAIN locks
       THEN /\ mu' = [mu EXCEPT ![r] = locks[LockKey(r)]]
            /\ pc' = [pc EXCEPT ![r] = "lock"]
            /\ Arrive(r, locks[LockKey(r)])
       ELSE /\ pc' = [pc EXCEPT ![r] = "create"]
            /\ UNCHANGED <<mu, obs>>
    /\ UNCHANGED <<variant, req, tok, vers, result, locks, holder, origin,
                   files, listFile, modules, calls, overdue, pureVars>>

\* v, _ = locks.LoadOrStore(key, &sync.Mutex{}): the new mutex is named by r
LockLoadOrStore(r) ==
    /\ pc[r] = "create"
    /\ IF LockKey(r) \in DOMAIN locks
       THEN /\ mu' = [mu EXCEPT ![r] = locks[LockKey(r)]]
            /\ locks' = locks
            /\ Arrive(r, locks[LockKey(r)])
       ELSE /\ mu' = [mu EXCEPT ![r] = r]
            /\ locks' = (LockKey(r) :> r) @@ locks
            /\ obs' = obs
    /\ pc' = [pc EXCEPT ![r] = "lock"]
    /\ UNCHANGED <<variant, req, tok, vers, result, holder, origin, files,
                   listFile, modules, calls, overdue, pureVars>>

\* v.(*sync.Mutex).Lock(), then the go get process is started
\* (cmd.Run, or the goroutine calling runCmd in the timeout build)
Lock(r) ==
    /\ pc[r] = "lock"
    /\ holder[mu[r]] = 0
    /\ holder' = [holder EXCEPT ![mu[r]] = r]
    /\ StartProc(r, "get")
    /\ pc' = [pc EXCEPT ![r] = "wait"]
    /\ obs' = [q \in Reqs |->
                  IF q # r /\ pc[q] = "lock" /\ mu[q] = mu[r]
                  THEN [obs[q] EXCEPT !.behind = @ \cup {r}]
                  ELSE IF q = r
                       THEN [obs[q] EXCEPT !.cached = modules[req[r].mod]]
                       ELSE obs[q]]
    /\ UNCHANGED <<variant, req, tok, mu, vers, result, locks, files,
                   listFile, modules, overdue, pureVars>>

\* the packages the go command downloads along with package m when m
\* requires them (the text of go get has lines for them), at version Pseudo
Required(m) ==
    Mods \ {m}

\* The go process of r ends. It fails (non-zero exit, nothing written), or it
\* resolves the query to rv, writes rv's .mod and .zip, writes rv's .info or
\* not, and adds rv to the list file; it downloads the packages mod requires
\* as well, or needs none. In the list build its progress text has a
\* "downloading <mod> <rv>" line or not.
OriginExit(r) ==
    /\ origin[r].st = "running"
    /\ \/ /\ origin' = [origin EXCEPT ![r].st = "exited", ![r].ok = FALSE]
          /\ UNCHANGED <<files, listFile>>
       \/ \E rv \in OriginResolves(origin[r].tok), info \in BOOLEAN,
             line \in (IF variant = "list" THEN BOOLEAN ELSE {FALSE}),
             deps \in {{}, Required(origin[r].mod)} :
             /\ origin' = [origin EXCEPT ![r].st = "exited", ![r].ok = TRUE,
                                         ![r].rv = rv, ![r].info = info,
                                         ![r].line = line]
             /\ files' = files
                   \cup {<<origin[r].mod, rv, e>> :
                            e \in (IF info THEN Exts ELSE Exts \ {".info"})}
                   \cup {<<d, Pseudo, e>> : d \in deps, e \in Exts}
             /\ listFile' = [m \in Mods |->
                                IF m = origin[r].mod
                                THEN AppendIfAbsent(listFile[m], rv)
                                ELSE IF m \in deps
                                     THEN AppendIfAbsent(listFile[m], Pseudo)
                                     ELSE listFile[m]]
    /\ UNCHANGED <<variant, pc, req, tok, mu, vers, result, locks, holder,
                   modules, calls, obs, overdue, pureVars>>

\* (mutant) the error return leaves without unlocking
FetchFailKeepsLock(r, e) ==
    /\ Respond(r, Failed(e))
    /\ origin' = [origin EXCEPT ![r] =
                     IF @.st = "exited" THEN NoProc ELSE @]
    /\ UNCHANGED <<variant, req, tok, mu, vers, locks, holder, files,
                   listFile, modules, calls, obs, overdue, pureVars>>

\* fetchMod returns an error: the deferred Unlock runs and the handler
\* answers 500. A process that has ended is reaped; one still running stays.
FetchFail(r, e) ==
    /\ Unlock(r)
    /\ Respond(r, Failed(e))
    /\ origin' = [origin EXCEPT ![r] =
                     IF @.st = "exited" THEN NoProc ELSE @]
    /\ UNCHANGED <<variant, req, tok, mu, vers, locks, files, listFile,
                   modules, calls, obs, overdue, pureVars>>

\* (mutant) the return of a version leaves without unlocking
FetchReturnKeepsLock(r, v) ==
    /\ holder' = holder
    /\ Respond(r, PathAfterFetch(r, v))
    /\ origin' = [origin EXCEPT ![r] = NoProc]

\* fetchMod returns v: the deferred Unlock runs and the handler serves
FetchReturn(r, v) ==
    /\ Unlock(r)
    /\ Respond(r, PathAfterFetch(r, v))
    /\ origin' = [origin EXCEPT ![r] = NoProc]

\* (mutant) the error of the go process is dropped and the path is served
GetFailServes(r) ==
    /\ pc[r] = "wait"
    /\ origin[r].st = "exited"
    /\ ~origin[r].ok
    /\ FetchReturn(r, tok[r])
    /\ UNCHANGED <<variant, req, tok, mu, vers, locks, files, listFile,
                   modules, calls, obs, overdue, pureVars>>

\* err := cmd.Run() (or err = <-e) with a non-nil error
GetFail(r) ==
    /\ pc[r] = "wait"
    /\ origin[r].st = "exited"
    /\ ~origin[r].ok
    /\ FetchFail(r, "origin")

\* The timeout budget of r's call passes in a build that has no timer:
\* cmd.Run() goes on waiting.
Elapse(r) ==
    /\ variant # "timeout"
    /\ pc[r] = "wait"
    /\ origin[r].st = "running"
    /\ ~overdue[r]
    /\ overdue' = [overdue EXCEPT ![r] = TRUE]
    /\ UNCHANGED <<variant, pc, req, tok, mu, vers, result, locks, holder,
                   origin, files, listFile, modules, calls, obs, pureVars>>

-----------------------------------------------------------------------------
(* The timeout build: src/main.go 105-188, 202-218 *)

\* fetchPath: if isExist(path) { return path, nil }
IsExist(r) ==
    /\ variant = "timeout"
    /\ pc[r] = "exist"
    /\ IF <<req[r].mod, req[r].ver, req[r].ext>> \in files
       THEN Respond(r, Served(req[r].mod, req[r].ver, req[r].ext))
       ELSE /\ pc' = [pc EXCEPT ![r] = "modInfo"]
            /\ result' = result
    /\ UNCHANGED <<variant, req, tok, mu, vers, locks, holder, origin, files,
                   listFile, modules, calls, obs, overdue, pureVars>>

\* modInfo: runCmd("go", "mod", "download", "-json", mod+"@"+ver) starts
ModInfo(r) ==
    /\ pc[r] = "modInfo"
    /\ StartProc(r, "download")
    /\ pc' = [pc EXCEPT ![r] = "waitInfo"]
    /\ UNCHANGED <<variant, req, tok, mu, vers, result, locks, holder, files,
                   listFile, modules, obs, overdue, pureVars>>

\* modInfo returns. On an error fetchPath returns it. Otherwise the file the
\* go command reported, or modPath(mod, m.Version, ext), is served if it
\* exists, and fetchMod(mod, m.Version) is called if it does not.
ModInfoReturn(r) ==
    /\ pc[r] = "waitInfo"
    /\ origin[r].st = "exited"
    /\ origin' = [origin EXCEPT ![r] = NoProc]
    /\ IF ~origin[r].ok
       THEN /\ Respond(r, Failed("origin"))
            /\ tok' = tok
       ELSE IF <<req[r].mod, origin[r].rv, req[r].ext>> \in files
            THEN /\ Respond(r, Served(req[r].mod, origin[r].rv, req[r].ext))
                 /\ tok' = tok
            ELSE /\ tok' = [tok EXCEPT ![r] = origin[r].rv]
                 /\ pc' = [pc EXCEPT ![r] = "load"]
                 /\ result' = result
    /\ UNCHANGED <<variant, req, mu, vers, locks, holder, files, listFile,
                   modules, calls, obs, overdue, pureVars>>

\* select: case <-time.After(*timeout): err = errTimeOut. The goroutine that
\* runs the go process is left to itself.
TimeOut(r) ==
    /\ variant = "timeout"
    /\ pc[r] = "wait"
    /\ FetchFail(r, "timeout")

\* select: case err = <-e with errOK: fetchMod returns nil, fetchPath the path
GetOkTimeout(r) ==
    /\ variant = "timeout"
    /\ pc[r] = "wait"
    /\ origin[r].st = "exited"
    /\ origin[r].ok
    /\ FetchReturn(r, tok[r])
    /\ Got(r)
    /\ UNCHANGED <<variant, req, tok, mu, vers, locks, files, listFile,
                   modules, calls, overdue, pureVars>>

-----------------------------------------------------------------------------
(* The list build: src/main.go 387-471, 536-563 *)

\* fetchModPath: best, _, err := findMod(mod, ver), which reads the list file
FindMod(r) ==
    /\ variant = "list"
    /\ pc[r] = "find"
    /\ tok' = [tok EXCEPT ![r] = findMod(listFile[req[r].mod], req[r].ver).ver]
    /\ pc' = [pc EXCEPT ![r] = "stat"]
    /\ UNCHANGED <<variant, req, mu, vers, result, locks, holder, origin,
                   files, listFile, modules, calls, obs, overdue, pureVars>>

\* fetchModPath: if isNotExist(path) { best, err = fetchMod(mod, best) ... }
StatPath(r) ==
    /\ pc[r] = "stat"
    /\ IF <<req[r].mod, tok[r], req[r].ext>> \in files
       THEN Respond(r, Served(req[r].mod, tok[r], req[r].ext))
       ELSE /\ pc' = [pc EXCEPT ![r] = "load"]
            /\ result' = result
    /\ UNCHANGED <<variant, req, tok, mu, vers, locks, holder, origin, files,
                   listFile, modules, calls, obs, overdue, pureVars>>

\* cmd.Run() returned nil and the progress text is scanned. Without a
\* "downloading <mod> <version>" line fetchMod returns ver. With one it
\* returns f[3], after the .info check when f[3] != ver && hexVer(ver).
GetOkList(r) ==
    /\ variant = "list"
    /\ pc[r] = "wait"
    /\ origin[r].st = "exited"
    /\ origin[r].ok
    /\ IF origin[r].line /\ origin[r].rv # tok[r] /\ hexVer(tok[r])
       THEN /\ tok' = [tok EXCEPT ![r] = origin[r].rv]
            /\ pc' = [pc EXCEPT ![r] = "synthStat"]
            /\ origin' = [origin EXCEPT ![r] = NoProc]
            /\ UNCHANGED <<result, holder>>
       ELSE /\ FetchReturn(r, IF origin[r].line THEN origin[r].rv ELSE tok[r])
            /\ tok' = tok
    /\ Got(r)
    /\ UNCHANGED <<variant, req, mu, vers, locks, files, listFile, modules,
                   calls, overdue, pureVars>>

\* fetchMod: if isNotExist(path) for the .info of f[3]
SynthStat(r) ==
    /\ pc[r] = "synthStat"
    /\ IF <<req[r].mod, tok[r], ".info">> \in files
       THEN FetchReturn(r, tok[r])
       ELSE /\ pc' = [pc EXCEPT ![r] = "synthWrite"]
            /\ UNCHANGED <<result, holder, origin>>
    /\ UNCHANGED <<variant, req, tok, mu, vers, locks, files, listFile,
                   modules, calls, obs, overdue, pureVars>>

\* fetchMod: ioutil.WriteFile(path, []byte(info), os.ModePerm); return f[3]
SynthWrite(r) ==
    /\ pc[r] = "synthWrite"
    /\ files' = files \cup {<<req[r].mod, tok[r], ".info">>}
    /\ FetchReturn(r, tok[r])
    /\ UNCHANGED <<variant, req, tok, mu, vers, locks, listFile, modules,
                   calls, obs, overdue, pureVars>>

-----------------------------------------------------------------------------
(* The map build: src/unnamed/part_000 88-152, 192-223 *)

\* handler: best, ok := findMod(mod, ver); found: the file is served
FindModMap(r) ==
    /\ variant = "map"
    /\ pc[r] = "find"
    /\ LET f == findModMap(modules[req[r].mod], req[r].ver)
       IN  IF f.ok
           THEN /\ Respond(r, Served(req[r].mod, f.ver, req[r].ext))
                /\ tok' = tok
           ELSE /\ tok' = [tok EXCEPT ![r] = f.ver]
                /\ pc' = [pc EXCEPT ![r] = "load"]
                /\ result' = result
    /\ UNCHANGED <<variant, req, mu, vers, locks, holder, origin, files,
                   listFile, modules, calls, obs, overdue, pureVars>>

\* exec.Command("go", "get", "-d", path).Run() returned nil
GetOkMap(r) ==
    /\ variant = "map"
    /\ pc[r] = "wait"
    /\ origin[r].st = "exited"
    /\ origin[r].ok
    /\ pc' = [pc EXCEPT ![r] = "readList"]
    /\ origin' = [origin EXCEPT ![r] = NoProc]
    /\ Got(r)
    /\ UNCHANGED <<variant, req, tok, mu, vers, result, locks, holder, files,
                   listFile, modules, calls, overdue, pureVars>>

\* vers, err := readModList(modPath(mod + "/@v/list"))
ReadList(r) ==
    /\ pc[r] = "readList"
    /\ vers' = [vers EXCEPT ![r] = listFile[req[r].mod]]
    /\ pc' = [pc EXCEPT ![r] = "storeMods"]
    /\ UNCHANGED <<variant, req, tok, mu, result, locks, holder, origin, files,
                   listFile, modules, calls, obs, overdue, pureVars>>

\* modules.Store(mod, vers)
StoreMods(r) ==
    /\ pc[r] = "storeMods"
    /\ modules' = [modules EXCEPT ![req[r].mod] = vers[r]]
    /\ pc' = [pc EXCEPT ![r] = "loadMods"]
    /\ UNCHANGED <<variant, req, tok, mu, vers, result, locks, holder, origin,
                   files, listFile, calls, obs, overdue, pureVars>>

\* the loop of fetchMod over vers from its end: the last element of vs that
\* is not in val, and ver when the lengths agree or every element is in val
NewVersion(vs, val, ver) ==
    IF Len(vs) # Len(val) /\ \E i \in 1..Len(vs) : ~InSeq(vs[i], val)
    THEN vs[CHOOSE i \in 1..Len(vs) :
                /\ ~InSeq(vs[i], val)
                /\ \A j \in (i+1)..Len(vs) : InSeq(vs[j], val)]
    ELSE ver

\* val, _ = modules.LoadOrStore(mod, []string{}); fetchMod returns and the
\* handler serves mod/@v/<returned version><ext>
LoadMods(r) ==
    /\ pc[r] = "loadMods"
    /\ FetchReturn(r, NewVersion(vers[r], modules[req[r].mod], tok[r]))
    /\ UNCHANGED <<variant, req, tok, mu, vers, locks, files, listFile,
                   modules, calls, obs, overdue, pureVars>>

-----------------------------------------------------------------------------
(* Specification of the server *)

Next ==
    \E r \in Reqs :
        \/ Start(r)
        \/ LockLoad(r)
        \/ LockLoadOrStore(r)
        \/ Lock(r)
        \/ OriginExit(r)
        \/ GetFail(r)
        \/ Elapse(r)
        \/ IsExist(r)
        \/ ModInfo(r)
        \/ ModInfoReturn(r)
        \/ TimeOut(r)
        \/ GetOkTimeout(r)
        \/ FindMod(r)
        \/ StatPath(r)
        \/ GetOkList(r)
        \/ SynthStat(r)
        \/ SynthWrite(r)
        \/ FindModMap(r)
        \/ GetOkMap(r)
        \/ ReadList(r)
        \/ StoreMods(r)
        \/ LoadMods(r)

Spec ==
    Init /\ [][Next]_vars

\* the steps of the goroutine that handles request r, once r has arrived
Handler(r) ==
    \/ LockLoad(r)
    \/ LockLoadOrStore(r)
    \/ Lock(r)
    \/ GetFail(r)
    \/ IsExist(r)
    \/ ModInfo(r)
    \/ ModInfoReturn(r)
    \/ TimeOut(r)
    \/ GetOkTimeout(r)
    \/ FindMod(r)
    \/ StatPath(r)
    \/ GetOkList(r)
    \/ SynthStat(r)
    \/ SynthWrite(r)
    \/ FindModMap(r)
    \/ GetOkMap(r)
    \/ ReadList(r)
    \/ StoreMods(r)
    \/ LoadMods(r)

\* the requests of the behaviours checked for progress: the list, and the
\* .info file of a tagged version and of an abbreviated revision
FairFiles ==
    {[ver |-> <<>>, ext |-> "list"]}
        \cup {[ver |-> v, ext |-> ".info"] : v \in {Tagged, Abbrev}}

\* A request arrives.
StartFair(r) ==
    StartWith(r, FairFiles)

NextFair ==
    \E r \in Reqs :
        \/ StartFair(r)
        \/ Handler(r)
        \/ OriginExit(r)

\* The scheduler runs every goroutine that can run, a goroutine waiting in
\* Lock() gets the mutex if it is free again and again, and every go process
\* ends.
Fairness ==
    \A r \in Reqs :
        /\ WF_vars(Handler(r))
        /\ SF_vars(Lock(r))
        /\ WF_vars(OriginExit(r))

FairSpec ==
    Init /\ [][NextFair]_vars /\ Fairness

-----------------------------------------------------------------------------
(* Specification of findMod as a function of the token and the list *)

\* a hexadecimal digit, a second one, and the separator (not hexadecimal)
Alphabet ==
    {"a", "b", "-"}

Strings ==
    UNION {[1..n -> Alphabet] : n \in 0..MaxLen}

Lists ==
    UNION {[1..n -> Strings] : n \in 0..MaxList}

InitFind ==
    /\ variant = "none"
    /\ InitRest
    /\ arg \in [tok : Strings, list : Lists]
    /\ ret = NoRet

\* findMod of the list build is called with the input
ApplyFindMod ==
    /\ ret' = [fn |-> "list", tok |-> arg.tok, list |-> arg.list,
               out |-> findMod(arg.list, arg.tok)]
    /\ UNCHANGED <<sysVars, arg>>

\* findMod of the map build is called with the input
ApplyFindModMap ==
    /\ ret' = [fn |-> "map", tok |-> arg.tok, list |-> arg.list,
               out |-> findModMap(arg.list, arg.tok)]
    /\ UNCHANGED <<sysVars, arg>>

NextFind ==
    \/ ApplyFindMod
    \/ ApplyFindModMap

SpecFind ==
    InitFind /\ [][NextFind]_vars

-----------------------------------------------------------------------------
(* Specification of findMod on lists where several versions can match *)

\* commit hashes, and the abbreviated tokens a request can give
Hashes ==
    UNION {[1..n -> {"a", "b"}] : n \in 1..MaxHash}

\* versions "v-<hash>" and "w-<hash>": two versions can end in the same hash
HashVersions ==
    {<<b, "-">> \o x : b \in {"v", "w"}, x \in Hashes}

\* the lines of a list file, oldest first (go get appends)
ManyLists ==
    UNION {[1..n -> HashVersions] : n \in 0..MaxMany}

InitMany ==
    /\ variant = "none"
    /\ InitRest
    /\ arg \in [tok : Hashes, list : ManyLists]
    /\ ret = NoRet

SpecMany ==
    InitMany /\ [][NextFind]_vars

-----------------------------------------------------------------------------
(* encodePath and decodePath *)

Capitals ==
    <<"A", "B", "C", "D", "E", "F", "G", "H", "I", "J", "K", "L", "M",
      "N", "O", "P", "Q", "R", "S", "T", "U", "V", "W", "X", "Y", "Z">>

Smalls ==
    <<"a", "b", "c", "d", "e", "f", "g", "h", "i", "j", "k", "l", "m",
      "n", "o", "p", "q", "r", "s", "t", "u", "v", "w", "x", "y", "z">>

\* a rune beyond ASCII (U+00E9), written as one character of a string
Accented ==
    "U+00E9"

\* utf8.RuneSelf: runes below it are ASCII
RuneSelf ==
    128

\* the code point of a character
Rune(c) ==
    IF InSeq(c, Capitals) THEN 64 + (CHOOSE i \in 1..26 : Capitals[i] = c)
    ELSE IF InSeq(c, Smalls) THEN 96 + (CHOOSE i \in 1..26 : Smalls[i] = c)
    ELSE IF c = "!" THEN 33
    ELSE IF c = "/" THEN 47
    ELSE IF c = Accented THEN 233
    ELSE 0

\* byte(r) as a character
Chr(n) ==
    IF 65 <= n /\ n <= 90 THEN Capitals[n - 64]
    ELSE IF 97 <= n /\ n <= 122 THEN Smalls[n - 96]
    ELSE IF n = 33 THEN "!"
    ELSE IF n = 47 THEN "/"
    ELSE Accented

\* (mutant) an upper-case letter is lowered without the '!' before it
encodeRuneNoBang(r) ==
    IF 65 <= r /\ r <= 90
    THEN <<Chr(r + 97 - 65)>>
    ELSE <<Chr(r)>>

\* the body of the second loop of encodePath: what rune r appends to buf
encodeRune(r) ==
    IF 65 <= r /\ r <= 90
    THEN <<"!", Chr(r + 97 - 65)>>
    ELSE <<Chr(r)>>

RECURSIVE encodeLoop(_, _)
\* the second loop of encodePath from index k on
encodeLoop(s, k) ==
    IF k > Len(s)
    THEN <<>>
    ELSE encodeRune(Rune(s[k])) \o encodeLoop(s, k + 1)

\* encodePath: ok is err == nil
encodePath(s) ==
    IF \E i \in 1..Len(s) : Rune(s[i]) = 33 \/ Rune(s[i]) >= RuneSelf
    THEN [str |-> <<>>, ok |-> FALSE]
    ELSE IF ~\E i \in 1..Len(s) : 65 <= Rune(s[i]) /\ Rune(s[i]) <= 90
         THEN [str |-> s, ok |-> TRUE]
         ELSE [str |-> encodeLoop(s, 1), ok |-> TRUE]

\* one iteration of the loop of decodePath on rune r; st = [buf, bang, ok],
\* ok = FALSE once the loop has returned ("", false)
decodeRune(st, r) ==
    IF ~st.ok THEN st
    ELSE IF r >= RuneSelf THEN [st EXCEPT !.ok = FALSE]
    ELSE IF st.bang
         THEN IF r < 97 \/ 122 < r
              THEN [st EXCEPT !.ok = FALSE, !.bang = FALSE]
              ELSE [st EXCEPT !.buf = Append(@, Chr(r + 65 - 97)), !.bang = FALSE]
         ELSE IF r = 33 THEN [st EXCEPT !.bang = TRUE]
         ELSE IF 65 <= r /\ r <= 90 THEN [st EXCEPT !.ok = FALSE]
         ELSE [st EXCEPT !.buf = Append(@, Chr(r))]

RECURSIVE decodeLoop(_, _, _)
\* the loop of decodePath from index k on
decodeLoop(e, k, st) ==
    IF k > Len(e)
    THEN st
    ELSE decodeLoop(e, k + 1, decodeRune(st, Rune(e[k])))

\* (mutant) the test of a trailing '!' after the loop is left out
decodePathTrailing(e) ==
    LET st == decodeLoop(e, 1, [buf |-> <<>>, bang |-> FALSE, ok |-> TRUE])
    IN  IF ~st.ok
        THEN [str |-> <<>>, ok |-> FALSE]
        ELSE [str |-> st.buf, ok |-> TRUE]

\* decodePath
decodePath(e) ==
    LET st == decodeLoop(e, 1, [buf |-> <<>>, bang |-> FALSE, ok |-> TRUE])
    IN  IF ~st.ok \/ st.bang
        THEN [str |-> <<>>, ok |-> FALSE]
        ELSE [str |-> st.buf, ok |-> TRUE]

-----------------------------------------------------------------------------
(* Specification of the path codec as functions of a string *)

\* lower case, upper case, the escape, another ASCII character, beyond ASCII
PathAlphabet ==
    {"a", "z", "A", "Z", "!", "/", Accented}

PathStrings ==
    UNION {[1..n -> PathAlphabet] : n \in 0..MaxPath}

InitCodec ==
    /\ variant = "none"
    /\ InitRest
    /\ arg \in [tok : PathStrings, list : {<<>>}]
    /\ ret = NoRet

\* modPath encodes the package path
ApplyEncodePath ==
    /\ ret' = [fn |-> "encodePath", tok |-> arg.tok, list |-> <<>>,
               out |-> encodePath(arg.tok)]
    /\ UNCHANGED <<sysVars, arg>>

\* main decodes the path of the URL
ApplyDecodePath ==
    /\ ret' = [fn |-> "decodePath", tok |-> arg.tok, list |-> <<>>,
               out |-> decodePath(arg.tok)]
    /\ UNCHANGED <<sysVars, arg>>

\* a client encodes a package path and main decodes what it was sent
ApplyEncodeDecode ==
    /\ encodePath(arg.tok).ok
    /\ ret' = [fn |-> "encodeDecode", tok |-> arg.tok, list |-> <<>>,
               out |-> decodePath(encodePath(arg.tok).str)]
    /\ UNCHANGED <<sysVars, arg>>

\* main decodes the path of the URL and modPath encodes the package again
ApplyDecodeEncode ==
    /\ decodePath(arg.tok).ok
    /\ ret' = [fn |-> "decodeEncode", tok |-> arg.tok, list |-> <<>>,
               out |-> encodePath(decodePath(arg.tok).str)]
    /\ UNCHANGED <<sysVars, arg>>

NextCodec ==
    \/ ApplyEncodePath
    \/ ApplyDecodePath
    \/ ApplyEncodeDecode
    \/ ApplyDecodeEncode

SpecCodec ==
    InitCodec /\ [][NextCodec]_vars

-----------------------------------------------------------------------------
(* fetchMod of the list build: the scan of the progress text of go get *)

Digits ==
    {"0", "1", "2", "3", "4", "5", "6", "7", "8", "9"}

RECURSIVE Split(_, _)
\* strings.Split(s, sep) for a one-character sep
Split(s, sep) ==
    IF ~\E i \in 1..Len(s) : s[i] = sep
    THEN <<s>>
    ELSE LET i == CHOOSE j \in 1..Len(s) :
                      s[j] = sep /\ \A l \in 1..(j-1) : s[l] # sep
         IN  <<SubSeq(s, 1, i - 1)>> \o Split(SubSeq(s, i + 1, Len(s)), sep)

\* time.Parse("20060102150405", seg) returns no error: fourteen digits (and a
\* date that exists, which the stamps of the model are)
ParsesAsTime(seg) ==
    /\ Len(seg) = 14
    /\ \A i \in 1..14 : seg[i] \in Digits

\* one line of the text, as strings.Fields returns it, decides the result of
\* fetchMod(mod, ver) or leaves it open (done = FALSE); exists: the .info file
\* of the version the line names is in the cache
scanLine(f, mod, ver, exists) ==
    IF Len(f) # 4
    THEN [done |-> FALSE]
    ELSE IF f[2] = "downloading" /\ f[3] = mod
         THEN IF f[4] # ver /\ hexVer(ver) /\ ~exists
              THEN LET ss == Split(f[4], "-")
                   IN  IF Len(ss) = 3 /\ ~ParsesAsTime(ss[2])
                       THEN [done |-> TRUE, ver |-> <<>>, ok |-> FALSE,
                             wrote |-> FALSE]
                       ELSE [done |-> TRUE, ver |-> f[4], ok |-> TRUE,
                             wrote |-> TRUE]
              ELSE [done |-> TRUE, ver |-> f[4], ok |-> TRUE, wrote |-> FALSE]
         ELSE [done |-> FALSE]

RECURSIVE scanLoop(_, _, _, _, _)
\* the loop over br.ReadLine() from line k on; at io.EOF the token is returned
scanLoop(text, k, mod, ver, exists) ==
    IF k > Len(text)
    THEN [ver |-> ver, ok |-> TRUE, wrote |-> FALSE]
    ELSE LET s == scanLine(text[k], mod, ver, exists)
         IN  IF s.done
             THEN [ver |-> s.ver, ok |-> s.ok, wrote |-> s.wrote]
             ELSE scanLoop(text, k + 1, mod, ver, exists)

\* fetchMod after cmd.Run() returned nil: ok is err == nil, wrote tells
\* whether ioutil.WriteFile was called
scanText(text, mod, ver, exists) ==
    scanLoop(text, 1, mod, ver, exists)

-----------------------------------------------------------------------------
(* Specification of the scan as a function of the text, the token, the cache *)

\* the time of the commit in a pseudo-version
Stamp ==
    <<"2", "0", "1", "8", "0", "5", "1", "7", "1", "7", "3", "6", "2", "3">>

\* a pseudo-version base-timestamp-hash
Stamped ==
    <<"v", "0", "-">> \o Stamp \o <<"-", "a", "b">>

\* a pseudo-version of the form vX.Y.Z-0.timestamp-hash
Numbered ==
    <<"v", "1", "-", "0", ".">> \o Stamp \o <<"-", "a", "b">>

\* the versions a line of the text can name
LineVersions ==
    {Tagged, Stamped, Numbered}

\* lines of four fields, one of three, one of five
Lines ==
    {<<"go:", w, m, v>> :
         w \in {"downloading", "finding"}, m \in Mods, v \in LineVersions}
        \cup {<<"go:", "downloading", "p">>,
              <<"go:", "downloading", "p", Stamped, "done">>}

Texts ==
    UNION {[1..n -> Lines] : n \in 0..MaxLines}

\* the token of the fetch: abbreviated, a name, or the pseudo-version itself
ScanTokens ==
    {Abbrev, Latest, Stamped}

InitScan ==
    /\ variant = "none"
    /\ InitRest
    /\ arg \in [tok : ScanTokens, list : Texts, exists : BOOLEAN]
    /\ ret = NoRet

\* go get of package p has returned without error and fetchMod reads its text
ApplyScan ==
    /\ ret' = [fn |-> "fetchMod", tok |-> arg.tok, list |-> arg.list,
               out |-> scanText(arg.list, "p", arg.tok, arg.exists)]
    /\ UNCHANGED <<sysVars, arg>>

NextScan ==
    ApplyScan

SpecScan ==
    InitScan /\ [][NextScan]_vars

-----------------------------------------------------------------------------
(* Properties *)

\* the handlers that started a go process of kind k
Callers(k) ==
    {c.by : c \in {d \in calls : d.kind = k}}

\* C1: at most one go get process per package is running at any time.
OneFetchPerPackage ==
    \A m \in Mods : Cardinality(Running(m, "get")) <= 1

\* C2: a request for an uncached (package, token) that arrived while a fetch
\* of the same (package, token) was in flight and blocked behind it starts no
\* go get of its own once that fetch has succeeded.
NoRefetchAfterWait ==
    \A r \in Reqs : \A h \in obs[r].during \cap obs[r].behind :
        (/\ req[r].ext # "list"
         /\ req[h].ext # "list"
         /\ req[h].ver = req[r].ver
         /\ ~obs[r].hit
         /\ result[h].kind = "path")
            => ~\E c, d \in calls :
                   /\ c.by = h /\ c.kind = "get"
                   /\ d.by = r /\ d.kind = "get"
                   /\ d.tok = c.tok

\* C3: once the timeout budget of an origin call has passed, the caller no
\* longer holds the fetch lock.
LockFreedByTimeout ==
    \A r \in Reqs : overdue[r] => ~Holds(r)

\* C4: a handler blocked on a fetch lock is blocked by a fetch of its own
\* package, never by a fetch of another package.
BlockedOnlyBySamePackage ==
    \A r \in Reqs :
        (pc[r] = "lock" /\ holder[mu[r]] # 0)
            => req[holder[mu[r]]].mod = req[r].mod

\* C4 witness: a later request for another package fetched and was served
\* while the earlier fetch is still running under its lock.
OtherPackageOvertakes ==
    \E a, b \in Reqs :
        /\ a < b
        /\ req[a].mod # req[b].mod
        /\ pc[a] = "wait"
        /\ Holds(a)
        /\ origin[a].st = "running"
        /\ b \in Callers("get")
        /\ result[b].kind = "path"

\* C5: a request whose artifact file was in the cache when it arrived starts
\* no go process and is served that file.
CachedIsServed ==
    \A r \in Reqs :
        obs[r].hit =>
            /\ \A c \in calls : c.by # r
            /\ result[r].kind # "err"
            /\ result[r].kind = "path" =>
                   result[r] = Served(req[r].mod, req[r].ver, req[r].ext)

\* C6: a request whose token was literally in the known-version list when it
\* arrived starts no go process and does not fail.
ExactMatchIsLocal ==
    \A r \in Reqs :
        (variant \in {"list", "map"} /\ obs[r].exact) =>
            /\ \A c \in calls : c.by # r
            /\ result[r].kind # "err"


\* C7: the step in which a handler's origin call fails writes nothing to the
\* version list, the cache or the lock map, starts no further go process,
\* leaves the handler holding no lock and ends the request; and an error is
\* only ever the outcome of the handler's own origin call.
FailedFetchStoresNothing ==
    [][\A r \in Reqs :
          (result[r].kind = "none" /\ result'[r].kind = "err") =>
              /\ modules' = modules
              /\ listFile' = listFile
              /\ files' = files
              /\ locks' = locks
              /\ calls' = calls
              /\ pc'[r] = "done"
              /\ \A m \in Reqs : holder'[m] # r
              /\ \E c \in calls : c.by = r]_vars

\* C7 witness: a request that arrived after a failed fetch of the same
\* package and token fetched again and was served.
RetryAfterFailureSucceeds ==
    \E r \in Reqs : \E h \in obs[r].after :
        /\ result[h].kind = "err"
        /\ result[r].kind = "path"
        /\ \E c, d \in calls :
              /\ c.by = h /\ c.kind = "get"
              /\ d.by = r /\ d.kind = "get"
              /\ d.mod = c.mod
              /\ d.tok = c.tok

NoDup(s) ==
    \A i, j \in 1..Len(s) : s[i] = s[j] => i = j

\* every element of old is in new, in the same relative order
Keeps(old, new) ==
    \E f \in [1..Len(old) -> 1..Len(new)] :
        /\ \A i \in 1..Len(old) : new[f[i]] = old[i]
        /\ \A i, j \in 1..Len(old) : i < j => f[i] < f[j]

\* C8: every update of the modules map keeps the versions it held, in their
\* order, and holds no version twice.
CacheOnlyGrows ==
    [][\A m \in Mods : Keeps(modules[m], modules'[m]) /\ NoDup(modules'[m])]_vars

\* the token has a character outside 0-9a-f
IsExact(t) ==
    \E i \in 1..Len(t) : t[i] \notin HexChars

\* C9: for an exact token findMod finds the token if and only if it is an
\* element of the list, and then returns the token itself.
ExactTokenIsLiteral ==
    (ret.fn # "none" /\ IsExact(ret.tok)) =>
        /\ ret.out.ok <=> InSeq(ret.tok, ret.list)
        /\ ret.out.ver = ret.tok

\* C9 witness: an exact token was looked up in a list that holds it.
ExactTokenWasFound ==
    /\ ret.fn # "none"
    /\ IsExact(ret.tok)
    /\ ret.out.ok
    /\ InSeq(ret.tok, ret.list)

\* the matching rule C10 states for a known version v and abbreviated token t
AbbrevRule(v, t) ==
    /\ \E i \in 1..Len(v) : v[i] = "-"
    /\ LET k == CHOOSE i \in 1..Len(v) :
                    v[i] = "-" /\ \A j \in (i+1)..Len(v) : v[j] # "-"
           tail == [i \in 1..(Len(v) - k) |-> v[k + i]]
       IN  \/ HasPrefix(tail, t)
           \/ HasPrefix(t, tail)

\* C10: for a non-empty abbreviated token findMod finds a version if and only
\* if some known version satisfies the rule in either direction, and the
\* version it returns is a known version that satisfies it.
AbbrevMatchesBothWays ==
    (ret.fn # "none" /\ ~IsExact(ret.tok) /\ ret.tok # <<>>) =>
        /\ ret.out.ok <=> \E i \in 1..Len(ret.list) : AbbrevRule(ret.list[i], ret.tok)
        /\ ret.out.ok => /\ InSeq(ret.out.ver, ret.list)
                         /\ AbbrevRule(ret.out.ver, ret.tok)

\* C11: the empty token never matches: whatever the list, findMod called with
\* the empty token reports not found and selects no version of the list.
EmptyTokenNeverMatches ==
    (ret.fn # "none" /\ ret.tok = <<>>) =>
        /\ ~ret.out.ok
        /\ ret.out.ver = <<>>

\* does the resolver that produced ret match the known version v
Matches(v) ==
    IF ret.fn = "list" THEN findModHit(v, ret.tok) ELSE findModMapHit(v, ret.tok)

\* C12: when an abbreviated token matches more than one version of the list,
\* findMod returns the most recent one, the match that is latest in the
\* append-ordered list.
MostRecentMatchWins ==
    (ret.fn # "none" /\ ret.tok # <<>> /\ ~IsExact(ret.tok) /\ ret.out.ok) =>
        \E k \in 1..Len(ret.list) :
            /\ ret.list[k] = ret.out.ver
            /\ \A j \in (k+1)..Len(ret.list) : ~Matches(ret.list[j])

IsCapital(c) ==
    InSeq(c, Capitals)

IsSmall(c) ==
    InSeq(c, Smalls)

\* C13: encodePath fails, with no encoding, exactly when the string has a '!'
\* or a character beyond ASCII; of every other string, with or without capital
\* letters, decodePath(encodePath(s)) is (s, true).
PathRoundTrips ==
    /\ ret.fn = "encodePath" =>
           /\ ret.out.ok <=>
                  ~\E i \in 1..Len(ret.tok) :
                       ret.tok[i] = "!" \/ ret.tok[i] = Accented
           /\ ~ret.out.ok => ret.out.str = <<>>
    /\ ret.fn = "encodeDecode" =>
           ret.out = [str |-> ret.tok, ok |-> TRUE]

\* C13 witness: a string with a capital letter and another character came back
\* from encoding and decoding.
CapitalsRoundTripped ==
    /\ ret.fn = "encodeDecode"
    /\ \E i, j \in 1..Len(ret.tok) :
           IsCapital(ret.tok[i]) /\ ~IsCapital(ret.tok[j])
    /\ ret.out = [str |-> ret.tok, ok |-> TRUE]

\* the strings C14 says decodePath rejects
Malformed(e) ==
    \E i \in 1..Len(e) :
        \/ e[i] = Accented
        \/ IsCapital(e[i])
        \/ e[i] = "!" /\ i = Len(e)
        \/ e[i] = "!" /\ i < Len(e) /\ ~IsSmall(e[i + 1])

\* C14: decodePath rejects exactly the strings with a trailing '!', a '!'
\* before anything but a-z, a capital letter or a character beyond ASCII, and
\* every string e it accepts satisfies encodePath(decodePath(e)) = e.
DecodeAcceptsTheImage ==
    /\ ret.fn = "decodePath" => (ret.out.ok <=> ~Malformed(ret.tok))
    /\ ret.fn = "decodeEncode" => ret.out = [str |-> ret.tok, ok |-> TRUE]

\* C14 witness: an encoding with an escaped letter and another character was
\* decoded and encoded back to itself.
EscapeRoundTripped ==
    /\ ret.fn = "decodeEncode"
    /\ \E i, j \in 1..Len(ret.tok) : ret.tok[i] = "!" /\ j > i + 1
    /\ ret.out = [str |-> ret.tok, ok |-> TRUE]

\* a line "<x> downloading <package> <version>" that names package p
NamesPackage(f) ==
    /\ Len(f) = 4
    /\ f[2] = "downloading"
    /\ f[3] = "p"

\* C16: when go get succeeded, fetchMod returns without error the version
\* field of the first line "<x> downloading <package> <version>" whose package
\* field is the requested package, whatever other lines the text has, and the
\* token itself if no line is of that form.
FirstMatchingLineWins ==
    ret.fn = "fetchMod" =>
        /\ ret.out.ok
        /\ IF \E k \in 1..Len(ret.list) : NamesPackage(ret.list[k])
           THEN LET k == CHOOSE j \in 1..Len(ret.list) :
                             /\ NamesPackage(ret.list[j])
                             /\ \A l \in 1..(j-1) : ~NamesPackage(ret.list[l])
                IN  ret.out.ver = ret.list[k][4]
           ELSE ret.out.ver = ret.tok

\* C18: every go process started for a request, go get or go mod download,
\* runs only while the handler that started it holds the fetch lock.
OriginRunsUnderLock ==
    \A r \in Reqs : origin[r].st = "running" => Holds(r)

\* C17: a request for the version list starts a go get of "latest" while it
\* holds the fetch lock, waits for it under that lock, and is answered with
\* the path of the list file if and only if that go get returned without
\* error; otherwise it is answered with the error.
ListServedAfterFetch ==
    \A r \in Reqs : req[r].ext = "list" =>
        /\ pc[r] = "wait" =>
               /\ Holds(r)
               /\ [by |-> r, kind |-> "get", mod |-> req[r].mod,
                   tok |-> Latest] \in calls
        /\ obs[r].got =>
               [by |-> r, kind |-> "get", mod |-> req[r].mod,
                tok |-> Latest] \in calls
        /\ result[r].kind = "path" =>
               /\ obs[r].got
               /\ result[r] = Served(req[r].mod, <<>>, "list")
        /\ pc[r] = "done" /\ ~obs[r].got => result[r].kind = "err"

\* C17 witness: one list request was served after its fetch, another one was
\* answered with the error of its fetch.
ListServedAndListRefused ==
    \E a, b \in Reqs :
        /\ req[a].ext = "list"
        /\ obs[a].got
        /\ result[a] = Served(req[a].mod, <<>>, "list")
        /\ req[b].ext = "list"
        /\ b \in Callers("get")
        /\ result[b].kind = "err"

\* the version C19 says fetchMod returns: the last line of the list read
\* after the go get that the modules entry did not hold before the call, and
\* the token if there is none
LastAdded(r) ==
    LET added == {i \in 1..Len(vers[r]) : ~InSeq(vers[r][i], obs[r].cached)}
    IN  IF added = {}
        THEN tok[r]
        ELSE vers[r][CHOOSE i \in added : \A j \in added : j <= i]

\* C19: in the map build a fetchMod whose go get succeeded returns, and the
\* handler serves, the last version of the list file that the modules entry
\* did not hold before the call, and the token only if there is none.
NewestAddedIsServed ==
    \A r \in Reqs :
        (/\ variant = "map"
         /\ req[r].ext # "list"
         /\ obs[r].got
         /\ result[r].kind = "path")
            => result[r].ver = LastAdded(r)

\* C15: no existing artifact is overwritten: the write of a synthesized .info
\* file happens only when no .info file of that version is in the cache at
\* that moment, and apart from that write only a go process changes the cache.
NeverOverwrites ==
    [][/\ \A r \in Reqs :
              (pc[r] = "synthWrite" /\ pc'[r] # "synthWrite")
                  => <<req[r].mod, tok[r], ".info">> \notin files
       /\ (files' # files \/ listFile' # listFile)
              => \E r \in Reqs :
                     \/ pc[r] = "synthWrite" /\ pc'[r] # "synthWrite"
                     \/ origin[r].st = "running" /\ origin'[r].st = "exited"
      ]_vars

\* the mutexes r has locked and not unlocked
Held(r) ==
    {m \in Reqs : holder[m] = r}

=============================================================================
